---------------------------- MODULE Spec2Model ----------------------------
(***************************************************************************)
(* n-dhcp4: the packet socket of the DHCP client (n-dhcp4-network.c) and   *)
(* the test client runner (test-run-client.c).                             *)
(*                                                                         *)
(*   SpecFilter   the socket filter of n-dhcp4-network.c, run on packets   *)
(*   SpecSocket   n_dhcp4_network_client_packet_socket_new(), statement by *)
(*                statement, with packets arriving on the interface        *)
(*   Spec         main() of test-run-client.c                              *)
(***************************************************************************)
EXTENDS Integers, Sequences, FiniteSets, TLC

VARIABLES
    \* ---- the filter (n-dhcp4-network.c:33-96)
    xid,            \* the xid argument, the immediate of the xid comparison
    bigEndian,      \* byte order of the build: decides ntohs()
    pkt,            \* the packet the filter is run on
    verdict,        \* the filter's return value, NoVerdict before it ran
    \* ---- n_dhcp4_network_client_packet_socket_new (n-dhcp4-network.c:106-129)
    spc,            \* position in the function
    ifindex,        \* the ifindex argument
    fds,            \* descriptor table of the process: fd -> socket
    sockfd,         \* the local sockfd
    sockfdp,        \* *sockfdp of the caller
    ret,            \* the value returned, NoRet while running
    steps,          \* the system calls made so far, in order, with their outcome
    entry,          \* *sockfdp and the open descriptors when the call began
    \* ---- test-run-client.c
    hpc,                        \* position in main()
    argv,                       \* the command line getopt_long() has not yet returned
    nonopt,                     \* getopt_long() met an argument that is no option
    main_arg_broadcast_mac,     \* NULL or a buffer
    main_arg_n_broadcast_mac,
    main_arg_ifindex,
    main_arg_mac,               \* NULL or a buffer
    main_arg_n_mac,
    main_arg_test,
    r,                          \* r of main()
    parseStop,                  \* where parse_argv() returned: "" while it runs
    manager,                    \* the Manager object: state, client, probe
    events,                     \* the client's event queue
    revents,                    \* pfds[0].revents of the last poll()
    queued,                     \* the event queue as the last dispatch left it
    popped,                     \* the events popped since the last dispatch
    log                         \* the library calls of run(), in order

filterVars == <<xid, bigEndian, pkt, verdict>>
socketVars == <<spc, ifindex, fds, sockfd, sockfdp, ret, steps, entry>>
argVars == <<main_arg_broadcast_mac, main_arg_n_broadcast_mac, main_arg_ifindex,
             main_arg_mac, main_arg_n_mac, main_arg_test>>
runVars == <<manager, events, revents, queued, popped, log>>
harnessVars == <<hpc, argv, nonopt, argVars, r, parseStop, runVars>>

---------------------------------------------------------------------------
(* 32-bit arithmetic of the filter machine. A 32-bit word is the pair of  *)
(* its 16-bit halves <<high, low>>, so that no value leaves TLC's integers. *)

H16 == 256 * 256

U32(n) == <<n \div H16, n % H16>>       \* the word of a number below 2^31

RECURSIVE BitAnd(_, _)
BitAnd(a, b) ==
    IF a = 0 \/ b = 0 THEN 0
    ELSE (IF a % 2 = 1 /\ b % 2 = 1 THEN 1 ELSE 0) + 2 * BitAnd(a \div 2, b \div 2)

BitOr(a, b) == a + b - BitAnd(a, b)

And32(a, b) == <<BitAnd(a[1], b[1]), BitAnd(a[2], b[2])>>
Add32(a, b) ==
    LET lo == a[2] + b[2]
    IN  <<(a[1] + b[1] + lo \div H16) % H16, lo % H16>>
\* a - b modulo 2^32
Sub32(a, b) ==
    LET lo == a[2] - b[2]
        borrow == IF lo < 0 THEN 1 ELSE 0
    IN  <<(a[1] - b[1] - borrow + 2 * H16) % H16, (lo + H16) % H16>>
Ge32(a, b) == a[1] > b[1] \/ (a[1] = b[1] /\ a[2] >= b[2])

---------------------------------------------------------------------------
(* Constants of the headers the filter is compiled against *)

OffIpProtocol == 9          \* offsetof(struct iphdr, protocol)
OffIpFragOff  == 6          \* offsetof(struct iphdr, frag_off)
OffUdpDest    == 2          \* offsetof(struct udphdr, dest)
SizeofUdphdr  == 8          \* sizeof(struct udphdr)
IPPROTO_UDP   == 17
IP_MF         == 8192       \* 0x2000
IP_DF         == 16384      \* 0x4000
IP_OFFMASK    == 8191       \* 0x1fff
OffDhcpOp     == 0          \* offsetof(NDhcp4Header, op)
OffDhcpXid    == 4          \* offsetof(NDhcp4Header, xid)
OffDhcpMagic  == 236        \* offsetof(NDhcp4Message, magic) = sizeof(NDhcp4Header)
SizeofNDhcp4Message == 240  \* sizeof(NDhcp4Message): header, magic, no options
N_DHCP4_NETWORK_CLIENT_PORT == 68
N_DHCP4_OP_BOOTREPLY  == 2
N_DHCP4_MESSAGE_MAGIC == <<25474, 21347>>    \* 0x63825363, as <<0x6382, 0x5363>>
RetAll == 65535
Drop == 0

\* ntohs(): the identity on a big-endian build, a byte swap otherwise
ntohs(v) == IF bigEndian THEN v ELSE (v % 256) * 256 + (v \div 256)

---------------------------------------------------------------------------
(* Packets: a length and the bytes that are not zero *)

Byte(p, k) == IF k \in DOMAIN p.data THEN p.data[k] ELSE 0

\* the loads of the filter machine: NoLoad when the bytes are not all inside
\* the packet, the value in network byte order otherwise
NoLoad == <<>>
LoadB(p, k) == IF k + 1 > p.len THEN NoLoad ELSE <<0, Byte(p, k)>>
LoadH(p, k) == IF k + 2 > p.len THEN NoLoad ELSE <<0, Byte(p, k) * 256 + Byte(p, k + 1)>>
LoadW(p, k) ==
    IF k + 4 > p.len THEN NoLoad
    ELSE <<Byte(p, k) * 256 + Byte(p, k + 1), Byte(p, k + 2) * 256 + Byte(p, k + 3)>>

\* a load at the 32-bit offset X + k: no packet is 2^16 bytes long
Load(size, X, p, k) ==
    LET at == Add32(X, k)
    IN  IF at[1] # 0 THEN NoLoad
        ELSE CASE size = "B" -> LoadB(p, at[2])
               [] size = "H" -> LoadH(p, at[2])
               [] size = "W" -> LoadW(p, at[2])

---------------------------------------------------------------------------
(* The filter program *)

BPF_STMT(code, k) == [code |-> code, jt |-> 0, jf |-> 0, k |-> k]
BPF_JUMP(code, k, jt, jf) == [code |-> code, jt |-> jt, jf |-> jf, k |-> k]

\* every k is a 32-bit word (__u32 k of struct sock_filter); the jumps are
\* relative, so the program is the concatenation of its checks

\* IP: UDP ?
ProtocolCheck ==
    <<
        BPF_STMT(<<"LD", "B", "ABS">>, U32(OffIpProtocol)),                     \* A <- IP protocol
        BPF_JUMP(<<"JMP", "JEQ", "K">>, U32(IPPROTO_UDP), 1, 0),                \* IP protocol == UDP ?
        BPF_STMT(<<"RET", "K">>, U32(Drop))                                     \* ignore
    >>

FragmentCheck_DF ==
    <<
        BPF_STMT(<<"LD", "B", "ABS">>, U32(OffIpFragOff)),
        BPF_STMT(<<"ALU", "AND", "K">>, U32(ntohs(BitOr(IP_DF, BitOr(IP_MF, IP_OFFMASK))))),
        BPF_JUMP(<<"JMP", "JEQ", "K">>, U32(0), 1, 0),
        BPF_STMT(<<"RET", "K">>, U32(Drop))
    >>

\* IP: unfragmented ?
FragmentCheck ==
    <<
        BPF_STMT(<<"LD", "B", "ABS">>, U32(OffIpFragOff)),                      \* A <- Flags
        BPF_STMT(<<"ALU", "AND", "K">>, U32(ntohs(BitOr(IP_MF, IP_OFFMASK)))),  \* A <- A & (IP_MF | IP_OFFMASK)
        BPF_JUMP(<<"JMP", "JEQ", "K">>, U32(0), 1, 0),                          \* fragmented packet ?
        BPF_STMT(<<"RET", "K">>, U32(Drop))                                     \* ignore
    >>

\* X <- IP header length
LoadHeaderLength == << BPF_STMT(<<"LDX", "B", "MSH">>, U32(0)) >>

LengthCheck_FixedHeader ==
    <<
        BPF_STMT(<<"LDX", "W", "IMM">>, U32(20)),
        BPF_STMT(<<"LD", "W", "LEN">>, U32(0)),
        BPF_STMT(<<"ALU", "SUB", "X">>, U32(0)),
        BPF_JUMP(<<"JMP", "JGE", "K">>, U32(SizeofUdphdr + SizeofNDhcp4Message), 1, 0),
        BPF_STMT(<<"RET", "K">>, U32(Drop))
    >>

\* IP: large enough to fit the DHCP header ? Leaves X the size of the IP header.
LengthCheck ==
    LoadHeaderLength \o
    <<
        BPF_STMT(<<"LD", "W", "LEN">>, U32(0)),                                 \* A <- packet length
        BPF_STMT(<<"ALU", "SUB", "X">>, U32(0)),                                \* A -= X
        BPF_JUMP(<<"JMP", "JGE", "K">>, U32(SizeofUdphdr + SizeofNDhcp4Message), 1, 0), \* packet >= DHCPPacket ?
        BPF_STMT(<<"RET", "K">>, U32(Drop))                                     \* ignore
    >>

\* UDP: DHCP client port ?
PortCheck ==
    <<
        BPF_STMT(<<"LD", "H", "IND">>, U32(OffUdpDest)),                        \* A <- UDP destination port
        BPF_JUMP(<<"JMP", "JEQ", "K">>, U32(N_DHCP4_NETWORK_CLIENT_PORT), 1, 0),\* UDP destination port == DHCP client port ?
        BPF_STMT(<<"RET", "K">>, U32(Drop))                                     \* ignore
    >>

\* Leave X the size of IP and UDP headers
SkipUdpHeader ==
    <<
        BPF_STMT(<<"LD", "W", "IMM">>, U32(SizeofUdphdr)),                      \* A <- size of UDP header
        BPF_STMT(<<"ALU", "ADD", "X">>, U32(0)),                                \* A += X
        BPF_STMT(<<"MISC", "TAX">>, U32(0))                                     \* X <- A
    >>

\* DHCP: BOOTREPLY ?
OpCheck ==
    <<
        BPF_STMT(<<"LD", "B", "IND">>, U32(OffDhcpOp)),                         \* A <- DHCP op
        BPF_JUMP(<<"JMP", "JEQ", "K">>, U32(N_DHCP4_OP_BOOTREPLY), 1, 0),       \* op == BOOTREPLY ?
        BPF_STMT(<<"RET", "K">>, U32(Drop))                                     \* ignore
    >>

\* DHCP: current transaction id ?
XidCheck ==
    <<
        BPF_STMT(<<"LD", "W", "IND">>, U32(OffDhcpXid)),                        \* A <- transaction identifier
        BPF_JUMP(<<"JMP", "JEQ", "K">>, xid, 1, 0),                             \* transaction identifier == xid ?
        BPF_STMT(<<"RET", "K">>, U32(Drop))                                     \* ignore
    >>

\* DHCP: magic cookie ?
CookieCheck ==
    <<
        BPF_STMT(<<"LD", "W", "IND">>, U32(OffDhcpMagic)),                      \* A <- DHCP magic cookie
        BPF_JUMP(<<"JMP", "JEQ", "K">>, N_DHCP4_MESSAGE_MAGIC, 1, 0),           \* cookie == DHCP magic cookie ?
        BPF_STMT(<<"RET", "K">>, U32(Drop))                                     \* ignore
    >>

ReturnAll == << BPF_STMT(<<"RET", "K">>, U32(RetAll)) >>                        \* return all

\* the program with neither its length test nor its cookie test
filter_NoLengthNoCookie ==
    ProtocolCheck \o FragmentCheck \o LoadHeaderLength
        \o PortCheck \o SkipUdpHeader \o OpCheck \o XidCheck \o ReturnAll

\* struct sock_filter filter[]
filter ==
    ProtocolCheck \o FragmentCheck \o LengthCheck
        \o PortCheck \o SkipUdpHeader \o OpCheck \o XidCheck \o CookieCheck \o ReturnAll

(* The filter machine the kernel runs the program on (SO_ATTACH_FILTER):   *)
(* accumulator A and index X of 32 bits, pc an index into the program. A   *)
(* load outside the packet ends the run with verdict 0.                    *)
RECURSIVE sk_run_filter(_, _, _, _, _)
sk_run_filter(prog, p, pc, A, X) ==
    LET ins == prog[pc]
        c   == ins.code
        Zero == U32(0)
        ld(v) == IF v = NoLoad THEN Zero ELSE sk_run_filter(prog, p, pc + 1, v, X)
        ldx(v) == IF v = NoLoad THEN Zero
                  ELSE sk_run_filter(prog, p, pc + 1, A, U32(4 * (v[2] % 16)))
        jmp(taken) == sk_run_filter(prog, p, pc + 1 + (IF taken THEN ins.jt ELSE ins.jf), A, X)
    IN  CASE c = <<"RET", "K">>        -> ins.k
          [] c = <<"LD", "B", "ABS">>  -> ld(Load("B", Zero, p, ins.k))
          [] c = <<"LD", "H", "ABS">>  -> ld(Load("H", Zero, p, ins.k))
          [] c = <<"LD", "W", "ABS">>  -> ld(Load("W", Zero, p, ins.k))
          [] c = <<"LD", "B", "IND">>  -> ld(Load("B", X, p, ins.k))
          [] c = <<"LD", "H", "IND">>  -> ld(Load("H", X, p, ins.k))
          [] c = <<"LD", "W", "IND">>  -> ld(Load("W", X, p, ins.k))
          [] c = <<"LDX", "B", "MSH">> -> ldx(Load("B", Zero, p, ins.k))
          [] c = <<"LD", "W", "LEN">>  -> sk_run_filter(prog, p, pc + 1, U32(p.len), X)
          [] c = <<"LD", "W", "IMM">>  -> sk_run_filter(prog, p, pc + 1, ins.k, X)
          [] c = <<"LDX", "W", "IMM">> -> sk_run_filter(prog, p, pc + 1, A, ins.k)
          [] c = <<"ALU", "AND", "K">> -> sk_run_filter(prog, p, pc + 1, And32(A, ins.k), X)
          [] c = <<"ALU", "SUB", "X">> -> sk_run_filter(prog, p, pc + 1, Sub32(A, X), X)
          [] c = <<"ALU", "ADD", "X">> -> sk_run_filter(prog, p, pc + 1, Add32(A, X), X)
          [] c = <<"MISC", "TAX">>     -> sk_run_filter(prog, p, pc + 1, A, A)
          [] c = <<"JMP", "JEQ", "K">> -> jmp(A = ins.k)
          [] c = <<"JMP", "JGE", "K">> -> jmp(Ge32(A, ins.k))

\* the verdict of the attached program on a packet
RunFilter(p) == sk_run_filter(filter, p, 1, U32(0), U32(0))

---------------------------------------------------------------------------
(* The fields of a packet, as struct iphdr, struct udphdr and NDhcp4Message *)
(* lay them out: the UDP header starts ihl * 4 bytes into the packet.       *)

IpIhl(p)      == Byte(p, 0) % 16
IpHdrLen(p)   == 4 * IpIhl(p)
IpProtocol(p) == Byte(p, OffIpProtocol)
IpFragOff(p)  == Byte(p, OffIpFragOff) * 256 + Byte(p, OffIpFragOff + 1)
UdpDest(p)    == Byte(p, IpHdrLen(p) + OffUdpDest) * 256
                    + Byte(p, IpHdrLen(p) + OffUdpDest + 1)
DhcpOff(p)    == IpHdrLen(p) + SizeofUdphdr
DhcpOp(p)     == Byte(p, DhcpOff(p) + OffDhcpOp)
DhcpWord(p, k) ==
    <<Byte(p, k) * 256 + Byte(p, k + 1), Byte(p, k + 2) * 256 + Byte(p, k + 3)>>
DhcpXid(p)    == DhcpWord(p, DhcpOff(p) + OffDhcpXid)
DhcpMagic(p)  == DhcpWord(p, DhcpOff(p) + OffDhcpMagic)

---------------------------------------------------------------------------
(* The packets the model runs the filter on *)

MaxPad == 1     \* bytes a packet may carry beyond the smallest DHCP message

Xids      == {<<0, 1>>, <<65244, 47768>>}     \* 1 and 0xfedcba98
FragOffs  == {0, IP_MF, IP_DF, 1, 256}
Protocols == {IPPROTO_UDP, 6}
Ports     == {N_DHCP4_NETWORK_CLIENT_PORT, 67}
Ops       == {N_DHCP4_OP_BOOTREPLY, 1}
Magics    == {N_DHCP4_MESSAGE_MAGIC, <<25474, 21346>>}
ShortLens == {8, 40}

Word(k, v) ==
    (k :> (v[1] \div 256)) @@ ((k + 1) :> (v[1] % 256))
        @@ ((k + 2) :> (v[2] \div 256)) @@ ((k + 3) :> (v[2] % 256))

\* a packet whose IP header says ihl words, whose UDP datagram was written hl
\* bytes into it, cut to len bytes
MkPacket(ihl, hl, len, proto, frag, dport, op, x, magic) ==
    LET udp  == ((hl + OffUdpDest) :> (dport \div 256)) @@ ((hl + OffUdpDest + 1) :> (dport % 256))
        dhcp == ((hl + SizeofUdphdr + OffDhcpOp) :> op)
                    @@ Word(hl + SizeofUdphdr + OffDhcpXid, x)
                    @@ Word(hl + SizeofUdphdr + OffDhcpMagic, magic)
        ip   == (0 :> (64 + ihl)) @@ (OffIpFragOff :> (frag \div 256))
                    @@ ((OffIpFragOff + 1) :> (frag % 256)) @@ (OffIpProtocol :> proto)
        all  == ip @@ udp @@ dhcp
        keep == {k \in DOMAIN all : k < len /\ all[k] # 0}
    IN  [len |-> len, data |-> [k \in keep |-> all[k]]]

Layouts(ihl) == {4 * ihl, 20}
Lens(ihl) ==
    {hl + SizeofUdphdr + SizeofNDhcp4Message + d : hl \in Layouts(ihl), d \in -1..MaxPad}
        \cup ShortLens

Packets ==
    UNION { UNION { { MkPacket(ihl, hl, len, proto, frag, dport, op, x, magic) :
                        len \in Lens(ihl), proto \in Protocols, frag \in FragOffs,
                        dport \in Ports, op \in Ops, x \in Xids, magic \in Magics } :
                    hl \in Layouts(ihl) } :
            ihl \in 0..15 }

---------------------------------------------------------------------------
(* SpecFilter: a packet reaches a socket the program is attached to *)

NoVerdict == <<>>
NoRet == <<>>
NoFd == -1

SocketIdle ==
    /\ spc = "idle"
    /\ ifindex = 0
    /\ fds = <<>>
    /\ sockfd = NoFd
    /\ sockfdp = NoFd
    /\ ret = NoRet
    /\ steps = <<>>
    /\ entry = [sockfdp |-> NoFd, open |-> {}]

NULL == <<>>
\* owner: the functions whose local Manager pointer points to the Manager
NoManager == [state |-> "none", owner |-> {}, client |-> "none", probe |-> "none"]

HarnessIdle ==
    /\ hpc = "idle"
    /\ argv = <<>>
    /\ nonopt = FALSE
    /\ main_arg_broadcast_mac = NULL
    /\ main_arg_n_broadcast_mac = 0
    /\ main_arg_ifindex = 0
    /\ main_arg_mac = NULL
    /\ main_arg_n_mac = 0
    /\ main_arg_test = FALSE
    /\ r = 0
    /\ parseStop = ""
    /\ manager = NoManager
    /\ events = <<>>
    /\ revents = {}
    /\ queued = <<>>
    /\ popped = <<>>
    /\ log = <<>>

InitFilter ==
    /\ xid \in Xids
    /\ bigEndian \in BOOLEAN
    /\ pkt \in Packets
    /\ verdict = NoVerdict
    /\ SocketIdle
    /\ HarnessIdle

\* the kernel runs the attached program on the packet
FilterPacket ==
    /\ verdict = NoVerdict
    /\ verdict' = RunFilter(pkt)
    /\ UNCHANGED <<xid, bigEndian, pkt>>
    /\ UNCHANGED socketVars
    /\ UNCHANGED harnessVars

vars == <<filterVars, socketVars, harnessVars>>

NextFilter == FilterPacket

SpecFilter == InitFilter /\ [][NextFilter]_vars

---------------------------------------------------------------------------
(* SpecSocket: n_dhcp4_network_client_packet_socket_new(), one action per   *)
(* system call, while IP packets arrive on the interfaces.                  *)

MaxQueue == 2       \* packets a socket's receive queue holds

ETH_P_IP == 2048                    \* 0x0800
htons(v) == ntohs(v)
Errnos   == {1, 12, 19}             \* EPERM, ENOMEM, ENODEV
Ifindexes == {1, 2}

NoFilter == <<>>

\* socket(AF_PACKET, SOCK_DGRAM, 0): the protocol argument
SocketProtocol_EthPIp == htons(ETH_P_IP)
SocketProtocol == 0

\* return -errno
ErrnoReturn_Positive(e) == e
ErrnoReturn(e) == -e

\* the lowest descriptor not in use
NewFd == CHOOSE fd \in 3..(3 + Cardinality(DOMAIN fds)) :
            fd \notin DOMAIN fds /\ \A g \in 3..(fd - 1) : g \in DOMAIN fds

\* a socket(AF_PACKET, SOCK_DGRAM, protocol): it is on every interface and,
\* with protocol 0, receives nothing until it is bound
NewSocket(protocol) ==
    [protocol |-> protocol, ifindex |-> 0, filter |-> NoFilter,
     auxdata |-> FALSE, queue |-> <<>>]

InitSocket ==
    /\ xid \in Xids
    /\ bigEndian \in BOOLEAN
    /\ pkt = [len |-> 0, data |-> <<>>]
    /\ verdict = NoVerdict
    /\ spc = "socket"
    /\ ifindex \in Ifindexes
    /\ fds \in {<<>>, 3 :> NewSocket(0)}
    /\ sockfd = NoFd
    /\ sockfdp \in {NoFd, 3}
    /\ ret = NoRet
    /\ steps = <<>>
    /\ entry = [sockfdp |-> sockfdp, open |-> DOMAIN fds]
    /\ HarnessIdle

Return(v) ==
    /\ spc' = "returned"
    /\ ret' = v
    /\ UNCHANGED harnessVars

\* sockfd = socket(AF_PACKET, SOCK_DGRAM, 0); if (sockfd < 0) return -errno;
SocketCreate ==
    /\ spc = "socket"
    /\ \/ /\ sockfd' = NewFd
          /\ fds' = fds @@ (NewFd :> NewSocket(SocketProtocol))
          /\ steps' = Append(steps, [call |-> "socket", ok |-> TRUE])
          /\ spc' = "attach"
          /\ UNCHANGED <<ret, harnessVars>>
       \/ \E e \in Errnos :
          /\ sockfd' = -1
          /\ steps' = Append(steps, [call |-> "socket", ok |-> FALSE])
          /\ Return(ErrnoReturn(e))
          /\ UNCHANGED fds
    /\ UNCHANGED <<ifindex, sockfdp, entry>>
    /\ UNCHANGED filterVars

\* r = setsockopt(sockfd, SOL_SOCKET, SO_ATTACH_FILTER, &fprog, sizeof(fprog));
\* if (r < 0) return -errno;
AttachFilter ==
    /\ spc = "attach"
    /\ \/ /\ fds' = [fds EXCEPT ![sockfd].filter = filter]
          /\ steps' = Append(steps, [call |-> "SO_ATTACH_FILTER", ok |-> TRUE])
          /\ spc' = "auxdata"
          /\ UNCHANGED <<ret, harnessVars>>
       \/ \E e \in Errnos :
          /\ steps' = Append(steps, [call |-> "SO_ATTACH_FILTER", ok |-> FALSE])
          /\ Return(ErrnoReturn(e))
          /\ UNCHANGED fds
    /\ UNCHANGED <<ifindex, sockfd, sockfdp, entry>>
    /\ UNCHANGED filterVars

\* r = setsockopt(sockfd, SOL_PACKET, PACKET_AUXDATA, &on, sizeof(on));
\* if (r < 0) return -errno;
EnableAuxdata ==
    /\ spc = "auxdata"
    /\ \/ /\ fds' = [fds EXCEPT ![sockfd].auxdata = TRUE]
          /\ steps' = Append(steps, [call |-> "PACKET_AUXDATA", ok |-> TRUE])
          /\ spc' = "bind"
          /\ UNCHANGED <<ret, harnessVars>>
       \/ \E e \in Errnos :
          /\ steps' = Append(steps, [call |-> "PACKET_AUXDATA", ok |-> FALSE])
          /\ Return(ErrnoReturn(e))
          /\ UNCHANGED fds
    /\ UNCHANGED <<ifindex, sockfd, sockfdp, entry>>
    /\ UNCHANGED filterVars

\* r = bind(sockfd, (struct sockaddr*)&addr, sizeof(addr)), with
\* addr = { AF_PACKET, htons(ETH_P_IP), ifindex }; if (r < 0) return -errno;
Bind ==
    /\ spc = "bind"
    /\ \/ /\ fds' = [fds EXCEPT ![sockfd].protocol = htons(ETH_P_IP),
                                 ![sockfd].ifindex = ifindex]
          /\ steps' = Append(steps, [call |-> "bind", ok |-> TRUE])
          /\ spc' = "assign"
          /\ UNCHANGED <<ret, harnessVars>>
       \/ \E e \in Errnos :
          /\ steps' = Append(steps, [call |-> "bind", ok |-> FALSE])
          /\ Return(ErrnoReturn(e))
          /\ UNCHANGED fds
    /\ UNCHANGED <<ifindex, sockfd, sockfdp, entry>>
    /\ UNCHANGED filterVars

\* *sockfdp = sockfd; return 0;
AssignAndReturn ==
    /\ spc = "assign"
    /\ sockfdp' = sockfd
    /\ Return(0)
    /\ UNCHANGED <<ifindex, fds, sockfd, steps, entry>>
    /\ UNCHANGED filterVars

\* the packets that arrive: a reply for each xid, a fragment of one, a TCP segment
ArrivingPackets ==
    { MkPacket(5, 20, 20 + SizeofUdphdr + SizeofNDhcp4Message, proto, frag,
               N_DHCP4_NETWORK_CLIENT_PORT, N_DHCP4_OP_BOOTREPLY, x, N_DHCP4_MESSAGE_MAGIC) :
        proto \in Protocols, frag \in {0, IP_MF}, x \in Xids }

\* what the kernel does with an IP packet p from interface i at a socket:
\* a socket takes it if its protocol is IP and it is bound to i or to no
\* interface, its queue has room, and its filter, if any, does not drop it
Takes(sk, i, p) ==
    /\ sk.protocol = htons(ETH_P_IP)
    /\ sk.ifindex \in {0, i}
    /\ Len(sk.queue) < MaxQueue
    /\ sk.filter # NoFilter => sk_run_filter(sk.filter, p, 1, U32(0), U32(0)) # U32(Drop)

\* an IP packet arrives on an interface
Deliver ==
    /\ \E i \in Ifindexes, p \in ArrivingPackets :
          /\ \E fd \in DOMAIN fds : Takes(fds[fd], i, p)
          /\ fds' = [fd \in DOMAIN fds |->
                        IF Takes(fds[fd], i, p)
                        THEN [fds[fd] EXCEPT !.queue = Append(@, p)]
                        ELSE fds[fd]]
    /\ UNCHANGED <<spc, ifindex, sockfd, sockfdp, ret, steps, entry>>
    /\ UNCHANGED filterVars
    /\ UNCHANGED harnessVars

NextSocket ==
    \/ SocketCreate
    \/ AttachFilter
    \/ EnableAuxdata
    \/ Bind
    \/ AssignAndReturn
    \/ Deliver

SpecSocket == InitSocket /\ [][NextSocket]_vars

---------------------------------------------------------------------------
(* Spec: main() of test-run-client.c. The library behind n-dhcp4.h is not   *)
(* part of these sources; its calls are modelled from its specification.    *)

MaxArgs   == 3      \* command-line arguments
MaxEvents == 2      \* events one dispatch queues

\* enum { _MAIN_SUCCESS, MAIN_EXIT, MAIN_FAILED }
MAIN_EXIT   == 1
MAIN_FAILED == 2
ENOMEM == 12
EINTR  == 4
ENOTRECOVERABLE == 131
\* what a failing library call returns: a negative errno or a positive N_DHCP4_E_* code
N_DHCP4_E_INTERNAL == 2
LibErrors == {-ENOMEM, N_DHCP4_E_INTERNAL}

Digit == ("0" :> 0) @@ ("1" :> 1) @@ ("2" :> 2) @@ ("3" :> 3) @@ ("4" :> 4)
            @@ ("5" :> 5) @@ ("6" :> 6) @@ ("7" :> 7) @@ ("8" :> 8) @@ ("9" :> 9)

\* atoi(): an optional sign, then the digits up to the first other character
RECURSIVE AtoiDigits(_, _)
AtoiDigits(str, acc) ==
    IF str = <<>> \/ Head(str) \notin DOMAIN Digit THEN acc
    ELSE AtoiDigits(Tail(str), 10 * acc + Digit[Head(str)])
atoi(str) ==
    IF str # <<>> /\ Head(str) = "-" THEN -AtoiDigits(Tail(str), 0)
    ELSE IF str # <<>> /\ Head(str) = "+" THEN AtoiDigits(Tail(str), 0)
    ELSE AtoiDigits(str, 0)

\* the value parse_hexstr() gives a character: 0 for one that is no hex digit
HexValue(c) ==
    CASE c \in DOMAIN Digit -> Digit[c]
      [] c \in {"a", "A"} -> 10
      [] c \in {"b", "B"} -> 11
      [] c \in {"c", "C"} -> 12
      [] c \in {"d", "D"} -> 13
      [] c \in {"e", "E"} -> 14
      [] c \in {"f", "F"} -> 15
      [] OTHER -> 0

\* the bytes parse_hexstr() writes: n_out = (n_in + 1) / 2; character i is the
\* whole byte i / 2 when i is even, and is shifted into it when i is odd
parse_hexstr(in) ==
    [k \in 1..((Len(in) + 1) \div 2) |->
        IF 2 * k <= Len(in)
        THEN ((HexValue(in[2 * k - 1]) * 16) % 256) + HexValue(in[2 * k])
        ELSE HexValue(in[2 * k - 1])]

\* a buffer is the one-element tuple of its bytes; NULL is the empty tuple
Buffer(bytes) == <<bytes>>

\* what getopt_long() returns, one after the other
IfindexArgs == {<<"0">>, <<"2">>, <<"-", "1">>, <<"x">>}
HexArgs     == {<<>>, <<"0", "a", "F">>}
Options ==
    {[opt |-> o, arg |-> <<>>] : o \in {"help", "test", "?", "nonoption"}}
        \cup {[opt |-> "ifindex", arg |-> a] : a \in IfindexArgs}
        \cup {[opt |-> o, arg |-> a] : o \in {"broadcast-mac", "mac"}, a \in HexArgs}

RECURSIVE SeqsUpTo(_, _)
SeqsUpTo(S, n) ==
    IF n = 0 THEN {<<>>}
    ELSE LET shorter == SeqsUpTo(S, n - 1)
         IN  shorter \cup {Append(q, x) : q \in shorter, x \in S}

Init ==
    /\ hpc = "parse"
    /\ argv \in SeqsUpTo(Options, MaxArgs)
    /\ nonopt = FALSE
    /\ main_arg_broadcast_mac = NULL
    /\ main_arg_n_broadcast_mac = 0
    /\ main_arg_ifindex = 0
    /\ main_arg_mac = NULL
    /\ main_arg_n_mac = 0
    /\ main_arg_test = FALSE
    /\ r = 0
    /\ parseStop = ""
    /\ manager = NoManager
    /\ events = <<>>
    /\ revents = {}
    /\ queued = <<>>
    /\ popped = <<>>
    /\ log = <<>>
    /\ xid = <<0, 1>>
    /\ bigEndian = FALSE
    /\ pkt = [len |-> 0, data |-> <<>>]
    /\ verdict = NoVerdict
    /\ SocketIdle

Opt == Head(argv)

\* parse_argv() returns v: main() goes on to run() when v is 0, to exit otherwise
ParseReturns(v, why) ==
    /\ r' = v
    /\ parseStop' = why
    /\ hpc' = IF v = 0 THEN "manager_new" ELSE "exit"

\* getopt_long() skips an argument that is no option (it moves it to the end)
ParseNonOption ==
    /\ hpc = "parse" /\ argv # <<>> /\ Opt.opt = "nonoption"
    /\ argv' = Tail(argv)
    /\ nonopt' = TRUE
    /\ UNCHANGED <<hpc, argVars, r, parseStop, runVars>>
    /\ UNCHANGED <<filterVars, socketVars>>

\* case 'h': print_help(); return MAIN_EXIT;
ParseHelp ==
    /\ hpc = "parse" /\ argv # <<>> /\ Opt.opt = "help"
    /\ argv' = Tail(argv)
    /\ ParseReturns(MAIN_EXIT, "help")
    /\ UNCHANGED <<nonopt, argVars, runVars>>
    /\ UNCHANGED <<filterVars, socketVars>>

\* case ARG_BROADCAST_MAC
ParseBroadcastMac ==
    /\ hpc = "parse" /\ argv # <<>> /\ Opt.opt = "broadcast-mac"
    /\ argv' = Tail(argv)
    /\ \/ \* parse_hexstr(): malloc() returned NULL
          /\ ParseReturns(-ENOMEM, "nomem")
          /\ UNCHANGED argVars
       \/ /\ main_arg_broadcast_mac' = Buffer(parse_hexstr(Opt.arg))
          /\ main_arg_n_broadcast_mac' = (Len(Opt.arg) + 1) \div 2
          /\ UNCHANGED <<hpc, r, parseStop, main_arg_ifindex, main_arg_mac,
                         main_arg_n_mac, main_arg_test>>
    /\ UNCHANGED <<nonopt, runVars>>
    /\ UNCHANGED <<filterVars, socketVars>>

\* case ARG_IFINDEX: main_arg_ifindex = atoi(optarg);
ParseIfindex ==
    /\ hpc = "parse" /\ argv # <<>> /\ Opt.opt = "ifindex"
    /\ argv' = Tail(argv)
    /\ main_arg_ifindex' = atoi(Opt.arg)
    /\ UNCHANGED <<hpc, nonopt, r, parseStop, main_arg_broadcast_mac,
                   main_arg_n_broadcast_mac, main_arg_mac, main_arg_n_mac,
                   main_arg_test, runVars>>
    /\ UNCHANGED <<filterVars, socketVars>>

\* case ARG_MAC
ParseMac ==
    /\ hpc = "parse" /\ argv # <<>> /\ Opt.opt = "mac"
    /\ argv' = Tail(argv)
    /\ \/ \* parse_hexstr(): malloc() returned NULL
          /\ ParseReturns(-ENOMEM, "nomem")
          /\ UNCHANGED argVars
       \/ /\ main_arg_mac' = Buffer(parse_hexstr(Opt.arg))
          /\ main_arg_n_mac' = (Len(Opt.arg) + 1) \div 2
          /\ UNCHANGED <<hpc, r, parseStop, main_arg_broadcast_mac,
                         main_arg_n_broadcast_mac, main_arg_ifindex, main_arg_test>>
    /\ UNCHANGED <<nonopt, runVars>>
    /\ UNCHANGED <<filterVars, socketVars>>

TestMac == <<0, 0, 0, 0, 0, 0>>

\* case ARG_TEST: setup_test() sets --broadcast-mac, --ifindex and --mac; its
\* assert(b) ends the process when a malloc() fails
ParseTest ==
    /\ hpc = "parse" /\ argv # <<>> /\ Opt.opt = "test"
    /\ argv' = Tail(argv)
    /\ \/ \* the first assert(b) fails
          /\ hpc' = "aborted"
          /\ UNCHANGED argVars
       \/ \* the second assert(b) fails
          /\ hpc' = "aborted"
          /\ main_arg_broadcast_mac' = Buffer(TestMac)
          /\ main_arg_n_broadcast_mac' = 6
          /\ main_arg_ifindex' = 1
          /\ UNCHANGED <<main_arg_mac, main_arg_n_mac, main_arg_test>>
       \/ /\ main_arg_broadcast_mac' = Buffer(TestMac)
          /\ main_arg_n_broadcast_mac' = 6
          /\ main_arg_ifindex' = 1
          /\ main_arg_mac' = Buffer(TestMac)
          /\ main_arg_n_mac' = 6
          /\ main_arg_test' = TRUE
          /\ UNCHANGED hpc
    /\ UNCHANGED <<nonopt, r, parseStop, runVars>>
    /\ UNCHANGED <<filterVars, socketVars>>

\* case '?': return MAIN_FAILED;
ParseUnknown ==
    /\ hpc = "parse" /\ argv # <<>> /\ Opt.opt = "?"
    /\ argv' = Tail(argv)
    /\ ParseReturns(MAIN_FAILED, "?")
    /\ UNCHANGED <<nonopt, argVars, runVars>>
    /\ UNCHANGED <<filterVars, socketVars>>

MissingArguments_NoIfindex ==
    \/ main_arg_broadcast_mac = NULL
    \/ main_arg_mac = NULL

\* !main_arg_broadcast_mac || !main_arg_ifindex || !main_arg_mac
MissingArguments ==
    \/ main_arg_broadcast_mac = NULL
    \/ main_arg_ifindex = 0
    \/ main_arg_mac = NULL

\* getopt_long() returned -1: the checks behind the loop
ParseEnd ==
    /\ hpc = "parse" /\ argv = <<>>
    /\ IF nonopt THEN ParseReturns(MAIN_FAILED, "end")          \* optind != argc
       ELSE IF MissingArguments THEN ParseReturns(MAIN_FAILED, "end")
       ELSE ParseReturns(0, "end")
    /\ UNCHANGED <<argv, nonopt, argVars, runVars>>
    /\ UNCHANGED <<filterVars, socketVars>>

(* run(): manager_new(), then manager_run() *)

Events    == {"DOWN", "OFFER", "GRANTED"}       \* N_DHCP4_CLIENT_EVENT_*
NoEvent   == ""                                 \* event == NULL
PollFlags == {"POLLIN", "POLLERR", "POLLHUP", "POLLNVAL"}

Call(name, arg) == <<name, arg>>

\* manager_free(manager): nothing for NULL; else the probe is freed, the
\* client reference dropped and the Manager freed
ManagerFreeCalls(m) ==
    << Call("n_dhcp4_client_probe_free", m.probe),
       Call("n_dhcp4_client_unref", m.client),
       Call("free", "manager") >>
ManagerFreed(m) ==
    [state  |-> "freed",
     owner  |-> m.owner,
     client |-> IF m.client = "live" THEN "unref" ELSE m.client,
     probe  |-> IF m.probe = "live" THEN "freed" ELSE m.probe]

\* run() returns v: its _cleanup_(manager_freep) frees the Manager it owns;
\* main() goes to exit
RunReturnsWith(v, m, calls) ==
    /\ r' = v
    /\ hpc' = "exit"
    /\ IF "run" \in m.owner
       THEN /\ manager' = ManagerFreed(m)
            /\ log' = log \o calls \o ManagerFreeCalls(m)
       ELSE /\ manager' = m
            /\ log' = log \o calls

RunReturns(v, calls) == RunReturnsWith(v, manager, calls)

\* manager_new() returns v # 0: its _cleanup_(manager_freep) frees the Manager
\* it still owns, then config is freed; *managerp stays unset, so run() has
\* nothing to free
ManagerNewFails(v, calls, freed) ==
    /\ r' = v
    /\ hpc' = "exit"
    /\ IF "manager_new" \in manager.owner
       THEN /\ manager' = ManagerFreed(manager)
            /\ log' = log \o calls \o ManagerFreeCalls(manager) \o freed
       ELSE /\ manager' = manager
            /\ log' = log \o calls \o freed

\* *managerp = manager; manager = NULL;
HandOver_KeepLocal(m) == [m EXCEPT !.owner = {"manager_new", "run"}]
HandOver(m) == [m EXCEPT !.owner = {"run"}]

\* manager = malloc(sizeof(*manager)); *manager = (Manager)MANAGER_NULL(*manager);
ManagerMalloc ==
    /\ hpc = "manager_new"
    /\ \/ /\ ManagerNewFails(-ENOMEM, << Call("malloc", "NULL") >>, <<>>)
       \/ /\ manager' = [state |-> "live", owner |-> {"manager_new"},
                          client |-> "none", probe |-> "none"]
          /\ log' = Append(log, Call("malloc", "manager"))
          /\ hpc' = "config_new"
          /\ UNCHANGED r
    /\ UNCHANGED <<argv, nonopt, argVars, parseStop, events, revents, queued, popped>>
    /\ UNCHANGED <<filterVars, socketVars>>

\* r = n_dhcp4_client_config_new(&config);
ConfigNew ==
    /\ hpc = "config_new"
    /\ \/ \E e \in LibErrors : ManagerNewFails(e, <<>>, <<>>)
       \/ /\ hpc' = "client_new"
          /\ log' = Append(log, Call("n_dhcp4_client_config_new", "config"))
          /\ UNCHANGED <<r, manager>>
    /\ UNCHANGED <<argv, nonopt, argVars, parseStop, events, revents, queued, popped>>
    /\ UNCHANGED <<filterVars, socketVars>>

\* the config the three n_dhcp4_client_config_set_*() calls make
ClientConfig ==
    [broadcast_mac |-> main_arg_broadcast_mac, n_broadcast_mac |-> main_arg_n_broadcast_mac,
     ifindex |-> main_arg_ifindex, mac |-> main_arg_mac, n_mac |-> main_arg_n_mac]

\* r = n_dhcp4_client_new(&manager->client, config); then *managerp = manager
ClientNew ==
    /\ hpc = "client_new"
    /\ \/ \E e \in LibErrors :
            ManagerNewFails(e, << Call("n_dhcp4_client_new", ClientConfig) >>,
                               << Call("n_dhcp4_client_config_free", "config") >>)
       \/ \* return 0: _cleanup_(manager_freep) sees the local pointer, then
          \* config is freed
          LET m == HandOver([manager EXCEPT !.client = "live"])
              called == << Call("n_dhcp4_client_new", ClientConfig) >>
              freed == << Call("n_dhcp4_client_config_free", "config") >>
          IN  /\ IF "manager_new" \in m.owner
                 THEN /\ manager' = ManagerFreed(m)
                      /\ log' = log \o called \o ManagerFreeCalls(m) \o freed
                 ELSE /\ manager' = m
                      /\ log' = log \o called \o freed
          /\ hpc' = "probe_config_new"
          /\ UNCHANGED r
    /\ UNCHANGED <<argv, nonopt, argVars, parseStop, events, revents, queued, popped>>
    /\ UNCHANGED <<filterVars, socketVars>>

\* r = n_dhcp4_client_probe_config_new(&config);
ProbeConfigNew ==
    /\ hpc = "probe_config_new"
    /\ \/ \E e \in LibErrors : RunReturns(e, <<>>)
       \/ /\ hpc' = "probe"
          /\ log' = Append(log, Call("n_dhcp4_client_probe_config_new", "config"))
          /\ UNCHANGED <<r, manager>>
    /\ UNCHANGED <<argv, nonopt, argVars, parseStop, events, revents, queued, popped>>
    /\ UNCHANGED <<filterVars, socketVars>>

\* r = n_dhcp4_client_probe(manager->client, &manager->probe, config);
\* if (main_arg_test) return 0;
Probe ==
    /\ hpc = "probe"
    /\ \/ \E e \in LibErrors :
            RunReturns(e, << Call("n_dhcp4_client_probe_config_free", "config") >>)
       \/ /\ main_arg_test
          /\ RunReturnsWith(0, [manager EXCEPT !.probe = "live"],
                            << Call("n_dhcp4_client_probe", "probe"),
                               Call("n_dhcp4_client_probe_config_free", "config") >>)
       \/ /\ ~main_arg_test
          /\ manager' = [manager EXCEPT !.probe = "live"]
          /\ log' = Append(log, Call("n_dhcp4_client_probe", "probe"))
          /\ hpc' = "poll"
          /\ UNCHANGED r
    /\ UNCHANGED <<argv, nonopt, argVars, parseStop, events, revents, queued, popped>>
    /\ UNCHANGED <<filterVars, socketVars>>

LoopReturns(v) == RunReturns(v, << Call("n_dhcp4_client_probe_config_free", "config") >>)

\* n = poll(pfds, 1, -1); if (n < 0) return -errno;
Poll ==
    /\ hpc = "poll"
    /\ \/ /\ LoopReturns(-EINTR)
          /\ UNCHANGED revents
       \/ \E re \in (SUBSET PollFlags) \ {{}} :
          /\ revents' = re
          /\ hpc' = "revents"
          /\ UNCHANGED <<r, manager, log>>
    /\ UNCHANGED <<argv, nonopt, argVars, parseStop, events, queued, popped>>
    /\ UNCHANGED <<filterVars, socketVars>>

PollFailed_NoPollin(re) == "POLLIN" \notin re

\* pfds[i].revents & ~POLLIN
PollFailed(re) == re \ {"POLLIN"} # {}

\* if (pfds[i].revents & ~POLLIN) return -ENOTRECOVERABLE;
\* if (!(pfds[i].revents & POLLIN)) continue;
CheckRevents ==
    /\ hpc = "revents"
    /\ IF PollFailed(revents) THEN LoopReturns(-ENOTRECOVERABLE)
       ELSE /\ hpc' = IF "POLLIN" \in revents THEN "dispatch" ELSE "poll"
            /\ UNCHANGED <<r, manager, log>>
    /\ UNCHANGED <<argv, nonopt, argVars, parseStop, events, revents, queued, popped>>
    /\ UNCHANGED <<filterVars, socketVars>>

\* n_dhcp4_client_dispatch(): it advances the client and queues the events of
\* the transitions it made, in their order; it may fail
Dispatched == {events \o new : new \in SeqsUpTo(Events, MaxEvents)}

\* manager_dispatch(): r = n_dhcp4_client_dispatch(manager->client); if (r) return r;
Dispatch ==
    /\ hpc = "dispatch"
    /\ \E q \in Dispatched :
          /\ events' = q
          /\ queued' = q
          /\ popped' = <<>>
          /\ \/ \E e \in LibErrors : LoopReturns(e)
             \/ /\ hpc' = "pop"
                /\ UNCHANGED <<r, manager, log>>
    /\ UNCHANGED <<argv, nonopt, argVars, parseStop, revents>>
    /\ UNCHANGED <<filterVars, socketVars>>

\* n_dhcp4_client_pop_event(): the oldest queued event, or none; never blocks
n_dhcp4_client_pop_event(q) ==
    IF q = <<>> THEN [event |-> NoEvent, rest |-> q]
    ELSE [event |-> Head(q), rest |-> Tail(q)]

LoopBreaks_AfterFirst(event) == TRUE

\* if (!event) break;
LoopBreaks(event) == event = NoEvent

\* manager_dispatch(): one turn of its for (;;)
PopEvent ==
    /\ hpc = "pop"
    /\ \/ /\ \E e \in LibErrors : LoopReturns(e)
          /\ UNCHANGED <<events, popped>>
       \/ LET got == n_dhcp4_client_pop_event(events)
          IN  /\ events' = got.rest
              /\ popped' = IF got.event = NoEvent THEN popped ELSE Append(popped, got.event)
              /\ hpc' = IF LoopBreaks(got.event) THEN "poll" ELSE "pop"
              /\ UNCHANGED <<r, manager, log>>
    /\ UNCHANGED <<argv, nonopt, argVars, parseStop, revents, queued>>
    /\ UNCHANGED <<filterVars, socketVars>>

\* exit: the status main() returns: 0 for MAIN_EXIT, 127 for a negative r
ExitStatus(v) == IF v = MAIN_EXIT THEN 0 ELSE IF v < 0 THEN 127 ELSE v

Exit ==
    /\ hpc = "exit"
    /\ r' = ExitStatus(r)
    /\ hpc' = "exited"
    /\ UNCHANGED <<argv, nonopt, argVars, parseStop, runVars>>
    /\ UNCHANGED <<filterVars, socketVars>>

Next ==
    \/ ParseNonOption
    \/ ParseHelp
    \/ ParseBroadcastMac
    \/ ParseIfindex
    \/ ParseMac
    \/ ParseTest
    \/ ParseUnknown
    \/ ParseEnd
    \/ ManagerMalloc
    \/ ConfigNew
    \/ ClientNew
    \/ ProbeConfigNew
    \/ Probe
    \/ Poll
    \/ CheckRevents
    \/ Dispatch
    \/ PopEvent
    \/ Exit

Spec == Init /\ [][Next]_vars

\* the process is scheduled: a step that can be taken is taken
FairSpec == Spec /\ WF_vars(Next)

---------------------------------------------------------------------------
(* The filter's claims, under SpecFilter *)

Ran      == verdict # NoVerdict
Accepted == Ran /\ verdict # U32(Drop)
Dropped  == Ran /\ verdict = U32(Drop)

Unfragmented(p) == BitAnd(IpFragOff(p), BitOr(IP_MF, IP_OFFMASK)) = 0
LongEnough(p)   == p.len >= IpHdrLen(p) + SizeofUdphdr + SizeofNDhcp4Message
IsDhcpReply(p)  ==
    /\ IpProtocol(p) = IPPROTO_UDP
    /\ UdpDest(p) = N_DHCP4_NETWORK_CLIENT_PORT
    /\ DhcpOp(p) = N_DHCP4_OP_BOOTREPLY
    /\ DhcpXid(p) = xid
    /\ DhcpMagic(p) = N_DHCP4_MESSAGE_MAGIC

\* C1: every packet the filter accepts is unfragmented: MF is clear and the
\* whole 13-bit fragment offset is zero. (The filter loads one byte of
\* frag_off, so the low eight bits of the offset are never tested.)
C1_AcceptedIsUnfragmented == Accepted => Unfragmented(pkt)

\* C2: for an IP header length of 5..15 words, a packet is accepted only if
\* it is UDP to port 68 carrying a BOOTREPLY with the socket's xid and the
\* magic cookie, all read behind the actual IP header; any other is dropped.
C2_AcceptsOnlyDhcpReply ==
    (Ran /\ IpIhl(pkt) \in 5..15) =>
        /\ Accepted => IsDhcpReply(pkt)
        /\ ~IsDhcpReply(pkt) => verdict = U32(Drop)

\* C2's case: a packet with IP options (ihl 15) was accepted
C2_Witness == Accepted /\ IpIhl(pkt) = 15 /\ IsDhcpReply(pkt)

\* C3: every accepted packet is at least as long as its IP header, a UDP
\* header and a DHCP header with cookie, for every ihl nibble; a packet
\* shorter than the IP header it claims is dropped although the 32-bit
\* subtraction wraps.
C3_AcceptedIsLongEnough ==
    /\ Accepted => LongEnough(pkt)
    /\ (Ran /\ pkt.len < IpHdrLen(pkt)) => verdict = U32(Drop)

\* C3's case: the subtraction wrapped (the packet passed the protocol and the
\* fragment test and is shorter than its IP header) and the packet was dropped
C3_Witness ==
    /\ Dropped
    /\ pkt.len < IpHdrLen(pkt)
    /\ IpProtocol(pkt) = IPPROTO_UDP
    /\ IpFragOff(pkt) = 0
    /\ Ge32(Sub32(U32(pkt.len), U32(IpHdrLen(pkt))), U32(SizeofUdphdr + SizeofNDhcp4Message))

\* C6: a packet that meets all seven admission conditions is accepted whole
\* (65535), for every ihl of 5..15, whatever its Don't-Fragment flag.
C6_ValidReplyAccepted ==
    (/\ Ran
     /\ IpIhl(pkt) \in 5..15
     /\ IsDhcpReply(pkt)
     /\ Unfragmented(pkt)
     /\ LongEnough(pkt)) => verdict = U32(RetAll)

\* C6's case: a valid reply with DF set and a 60-byte IP header was accepted
C6_Witness ==
    /\ verdict = U32(RetAll)
    /\ IpIhl(pkt) = 15
    /\ BitAnd(IpFragOff(pkt), IP_DF) # 0
    /\ IsDhcpReply(pkt) /\ Unfragmented(pkt) /\ LongEnough(pkt)

---------------------------------------------------------------------------
(* The claims about n_dhcp4_network_client_packet_socket_new, under SpecSocket *)

Returned == spc = "returned"
Opened   == DOMAIN fds \ entry.open       \* descriptors the call opened, still open
Calls    == <<"socket", "SO_ATTACH_FILTER", "PACKET_AUXDATA", "bind">>
AllOk(n) == Len(steps) = n /\ \A k \in 1..n : steps[k].call = Calls[k] /\ steps[k].ok
\* the first n - 1 calls succeeded, call n failed, and nothing came after
FailedAt(n) ==
    /\ Len(steps) = n
    /\ \A k \in 1..n : steps[k].call = Calls[k] /\ (steps[k].ok <=> k < n)

\* C4: when the call returns an error, no descriptor it opened is still open.
\* (The error returns after socket() leave sockfd open.)
C4_NoDescriptorLeftOnError == (Returned /\ ret # 0) => Opened = {}

\* C5: the call returns 0 exactly when socket, filter attach, PACKET_AUXDATA
\* and bind all succeeded, and then *sockfdp is the new, bound socket;
\* otherwise it returns a negative code right after the first failed call
\* and *sockfdp is what it was.
C5_ReturnValue ==
    Returned =>
        /\ ret = 0 <=> AllOk(4)
        /\ ret = 0 =>
              /\ sockfdp = sockfd
              /\ sockfd \in Opened
              /\ fds[sockfd].filter = filter
              /\ fds[sockfd].auxdata
              /\ fds[sockfd].protocol = htons(ETH_P_IP)
              /\ fds[sockfd].ifindex = ifindex
        /\ ret # 0 =>
              /\ ret < 0
              /\ \E n \in 1..4 : FailedAt(n)
              /\ sockfdp = entry.sockfdp

\* C5's case: bind, the last call, failed
C5_Witness == Returned /\ ret < 0 /\ FailedAt(4) /\ entry.sockfdp = 3

\* C7: a socket that can receive packets has the xid filter attached and
\* PACKET_AUXDATA enabled, and no queued packet is one the filter drops.
C7_FilterBeforeReceive ==
    \A fd \in Opened :
        /\ fds[fd].protocol # 0 => (fds[fd].filter = filter /\ fds[fd].auxdata)
        /\ \A k \in 1..Len(fds[fd].queue) : RunFilter(fds[fd].queue[k]) # U32(Drop)

\* C7's case: the bound socket holds a packet while other packets were refused
C7_Witness ==
    /\ Returned /\ ret = 0
    /\ Len(fds[sockfd].queue) = MaxQueue
    /\ \E p \in ArrivingPackets : RunFilter(p) = U32(Drop)

---------------------------------------------------------------------------
(* The claims about test-run-client.c, under Spec and FairSpec *)

InLoop == hpc \in {"poll", "revents", "dispatch"}

\* C8: after a successful dispatch the harness pops events until none is
\* left, so that all the events the dispatch left queued are consumed, oldest
\* first, before it polls again; the drain loop ends; after a failed dispatch
\* no event is popped.
C8_DrainsEveryEvent ==
    /\ [](InLoop => (events = <<>> /\ popped = queued))
    /\ [](hpc = "pop" => popped \o events = queued)
    /\ [][(hpc = "dispatch" /\ hpc' # "pop") => (hpc' = "exit" /\ popped' = <<>>)]_vars
    /\ [][(hpc \in {"exit", "exited"}) => (popped' = popped)]_vars
    /\ (hpc = "pop" ~> hpc # "pop")

\* C8's case: a dispatch queued two different events and both were popped,
\* in their order, before the next poll
C8_Witness ==
    /\ hpc = "poll"
    /\ Len(queued) = MaxEvents
    /\ queued[1] # queued[2]
    /\ popped = queued
    /\ events = <<>>

\* poll reported something other than POLLIN alone
OtherThanPollin == revents # {} /\ revents # {"POLLIN"}
ClientDestroyed ==
    /\ manager = [state |-> "freed", owner |-> {"run"}, client |-> "unref", probe |-> "freed"]
    /\ Len(log) >= 3
    /\ SubSeq(log, Len(log) - 2, Len(log)) =
            << Call("n_dhcp4_client_probe_free", "live"),
               Call("n_dhcp4_client_unref", "live"),
               Call("free", "manager") >>

\* C9: dispatch is called only when POLLIN is all that poll reported; once
\* poll reports anything else (also together with POLLIN) dispatch is never
\* called again, manager_run returns -ENOTRECOVERABLE, the probe is freed and
\* the client unreferenced, and the process exits with status 127.
C9_PollErrorEndsTheClient ==
    /\ hpc \in {"dispatch", "pop"} => revents = {"POLLIN"}
    /\ OtherThanPollin => hpc \in {"revents", "exit", "exited"}
    /\ (OtherThanPollin /\ hpc = "exit") => (r = -ENOTRECOVERABLE /\ ClientDestroyed)
    /\ (OtherThanPollin /\ hpc = "exited") => (r = 127 /\ ClientDestroyed)

\* C9's case: poll reported POLLIN together with POLLHUP and the process exited
C9_Witness ==
    /\ hpc = "exited"
    /\ revents = {"POLLIN", "POLLHUP"}
    /\ r = 127
    /\ ClientDestroyed

\* the ifindex is 0 or a MAC is unset
ArgsUnset ==
    main_arg_ifindex = 0 \/ main_arg_mac = NULL \/ main_arg_broadcast_mac = NULL
RunCalled == hpc = "manager_new" \/ log # <<>>
ClientNewCalls == {k \in 1..Len(log) : log[k][1] = "n_dhcp4_client_new"}

\* C10, as claimed: whenever the ifindex is 0 or a MAC is unset once
\* parse_argv() is done, parse_argv() returned MAIN_FAILED and run() is not called.
C10_UnsetArgsGiveMainFailed ==
    (hpc \notin {"parse", "aborted"} /\ ArgsUnset) =>
        /\ ~RunCalled
        /\ hpc = "exit" => r = MAIN_FAILED

\* C10, amended: whenever the ifindex is 0 or a MAC is unset, run() and
\* n_dhcp4_client_new() are never called and parse_argv() returns a value
\* that is not 0: MAIN_FAILED when it parsed all options or met an unknown
\* one, MAIN_EXIT when it stopped at --help, -ENOMEM when it could not
\* allocate a hex string.
C10_UnsetArgsNeverRun ==
    /\ ArgsUnset => ~RunCalled
    /\ \A k \in ClientNewCalls :
          /\ log[k][2].ifindex # 0
          /\ log[k][2].mac # NULL
          /\ log[k][2].broadcast_mac # NULL
    /\ (hpc = "exit" /\ ArgsUnset) =>
          /\ r # 0
          /\ parseStop \in {"end", "?"} => r = MAIN_FAILED
          /\ parseStop = "help" => r = MAIN_EXIT
          /\ parseStop = "nomem" => r = -ENOMEM

\* C10's case: --test, then --ifindex 0: parse_argv() parsed everything and failed
C10_Witness ==
    /\ hpc = "exit"
    /\ parseStop = "end"
    /\ main_arg_test
    /\ main_arg_ifindex = 0
    /\ main_arg_mac # NULL /\ main_arg_broadcast_mac # NULL
    /\ ~nonopt
    /\ r = MAIN_FAILED

\* the calls of one kind in the order the process made them
CallsOf(name) == {k \in 1..Len(log) : log[k][1] = name}
ManagerMallocs == {k \in 1..Len(log) : log[k] = Call("malloc", "manager")}
ManagerFrees == {k \in 1..Len(log) : log[k] = Call("free", "manager")}
ProbeCreated == CallsOf("n_dhcp4_client_probe") # {}
\* run() has returned
RunDone == RunCalled /\ hpc \in {"exit", "exited"}
\* manager_new() returned 0 and run() has not returned yet
InManagerRun == hpc \in {"probe_config_new", "probe", "poll", "revents", "dispatch", "pop"}

\* C11: on every path through run() a Manager that was allocated is freed
\* exactly once (never twice, and once run() has returned exactly once); each
\* free of the Manager comes after the client reference was dropped and that
\* after the probe was freed, and a probe that was created is the one freed;
\* when manager_new() fails run()'s pointer is left unset; when it succeeds
\* run() alone holds the Manager, still allocated, with nothing freed yet.
C11_ManagerFreedOnce ==
    /\ Cardinality(ManagerMallocs) <= 1
    /\ Cardinality(ManagerFrees) <= Cardinality(ManagerMallocs)
    /\ RunDone => Cardinality(ManagerFrees) = Cardinality(ManagerMallocs)
    /\ Cardinality(CallsOf("n_dhcp4_client_probe_free")) = Cardinality(ManagerFrees)
    /\ Cardinality(CallsOf("n_dhcp4_client_unref")) = Cardinality(ManagerFrees)
    /\ \A f \in ManagerFrees :
          /\ log[f - 1][1] = "n_dhcp4_client_unref"
          /\ log[f - 2][1] = "n_dhcp4_client_probe_free"
          /\ \A m \in ManagerMallocs : m < f - 2
          /\ \A c \in CallsOf("n_dhcp4_client_probe") : c < f - 2
          /\ ProbeCreated <=> log[f - 2][2] = "live"
    /\ (RunDone /\ manager.client = "none") => "run" \notin manager.owner
    /\ InManagerRun =>
          /\ manager.owner = {"run"}
          /\ manager.state = "live"
          /\ manager.client = "live"
          /\ ManagerFrees = {}

\* C11's case: --test made manager_run() return 0 after the probe was created,
\* and run()'s cleanup freed the probe, the client and the Manager
C11_Witness ==
    /\ hpc = "exited"
    /\ main_arg_test
    /\ r = 0
    /\ ProbeCreated
    /\ Cardinality(ManagerFrees) = 1
    /\ manager.state = "freed" /\ manager.probe = "freed" /\ manager.client = "unref"

=============================================================================
